---- MODULE Spec2Model ----
(***************************************************************************)
(* silence-srt.py: derives silence segments from the audio events detected *)
(* by auditok and corrects the time stamps of an SRT file against them,    *)
(* either by only shortening subtitles (--subtract_only) or by moving      *)
(* their boundaries to the neighbouring silences (expand/subtract).        *)
(*                                                                         *)
(* TIME.  The program computes with Python floats (binary64) in seconds    *)
(* and reads/writes SRT time stamps in whole milliseconds.  The times of   *)
(* this model are 0.0 and the floats from 0.008 s to 4 s.  A float is      *)
(* modelled by an integer number of ticks; the floats of one binade        *)
(* [2^e, 2^(e+1)) are the multiples of Ulp ticks, 1 tick in [2^-7, 2^-6)   *)
(* up to 256 ticks in [2, 4), and every float operation rounds its exact   *)
(* result to the nearest float of the result's binade, ties to even.  In   *)
(* binary64 a tick is 2^-59 s.  TicksPerSec agrees with 2^59 modulo        *)
(* 512000 = 1000 * 2 * 256, so that a decimal value k/1000 s falls between *)
(* two floats exactly where it falls between two binary64 values, and      *)
(* every rounding below goes the way it goes in Python.  An SRT time stamp *)
(* "00:00:SS,mmm" is modelled by its number of milliseconds.               *)
(***************************************************************************)
EXTENDS Integers, Sequences, FiniteSets, TLC

\* ------------------------------------------------------------------ bounds
MaxEvents == 3
MaxSubs == 2

\* -------------------------------------------------------- float arithmetic
TicksPerSec == 1855488

\* num/den rounded to the nearest integer, ties to even (IEEE round-to-nearest)
RoundHalfEven(num, den) ==
    LET q == num \div den
        r == num % den
    IN  IF 2 * r > den \/ (2 * r = den /\ q % 2 = 1) THEN q + 1 ELSE q

\* the spacing of the floats around v >= 0, in ticks: 1 below 2^-6 s, 2 in
\* [2^-6, 2^-5), ..., 128 in [1, 2), 256 in [2, 4)
RECURSIVE Ulp(_)
Ulp(v) == IF v < TicksPerSec \div 64 THEN 1 ELSE 2 * Ulp(v \div 2)

\* the float nearest to the exact value v
Round(v) ==
    IF v < 0 THEN -(RoundHalfEven(-v, Ulp(-v)) * Ulp(-v))
    ELSE RoundHalfEven(v, Ulp(v)) * Ulp(v)

\* the float sum and the float difference of two floats
Plus(x, y) == Round(x + y)
Minus(x, y) == Round(x - y)

\* the float mmm / 1000.0 (mmm = 0 or 8 <= mmm <= 999): the exact quotient
\* rounded to the floats of its binade
FloatOfMillis(mmm) ==
    IF mmm = 0 THEN 0
    ELSE LET g == Ulp((mmm * TicksPerSec) \div 1000)
         IN  RoundHalfEven(mmm * TicksPerSec, 1000 * g) * g

\* int(seconds) + ms / 1000.0, hours and minutes being 0
time_to_seconds(stamp) ==
    Plus((stamp \div 1000) * TicksPerSec, FloatOfMillis(stamp % 1000))

\* smallest power of two that is >= n (n >= 1)
RECURSIVE CeilPow2(_)
CeilPow2(n) == IF n <= 1 THEN 1 ELSE 2 * CeilPow2((n + 1) \div 2)

\* int(seconds) * 1000 + int((seconds - int(seconds)) * 1000): the
\* subtraction is exact; the exact product lies d / (2^59 * 1000) ms from the
\* whole millisecond ms nearest to it.  The float product is rounded on the
\* grid of floats around ms, whose spacing just below ms is
\* CeilPow2(ms) * 2^-53: a shortfall of up to half that spacing is rounded up
\* to ms, a larger one stays below ms and int() truncates it to ms - 1.
MillisOfFloat(t) ==
    LET sec  == t \div TicksPerSec
        frac == t - sec * TicksPerSec
        ms   == (frac * 1000 + TicksPerSec \div 2) \div TicksPerSec
        d    == frac * 1000 - ms * TicksPerSec
    IN  sec * 1000 + (IF d < 0 /\ -d > 32 * CeilPow2(ms) THEN ms - 1 ELSE ms)

seconds_to_srt_time(t) == MillisOfFloat(t)

\* 0.01 s, in milliseconds, and the float 0.01
analysis_window == 10
WindowTicks == FloatOfMillis(analysis_window)

\* end - start < min_silence_dur, min_silence_dur given in milliseconds
ShorterThan(start, end, min_ms) == Minus(end, start) < FloatOfMillis(min_ms)


\* ------------------------------------------------------------------ inputs
\* --min_silence_dur, in milliseconds (the default)
min_silence_dur == 50

\* time stamps (ms) at which auditok may report an event to start or end
EventStamps == {2100, 2150, 2250, 2310, 2410, 2460}
\* time stamps (ms) that occur in the SRT file to fix
SubStamps == {2110, 2220, 2350}

EventRegions ==
    {[start |-> time_to_seconds(p[1]), end |-> time_to_seconds(p[2])] :
        p \in {q \in EventStamps \X EventStamps : q[1] < q[2]}}

\* what auditok.split returns: regions in time order that do not overlap
EventLists ==
    {e \in UNION {[1..n -> EventRegions] : n \in 0..MaxEvents} :
        \A k \in 1..(Len(e) - 1) : e[k].end <= e[k + 1].start}

\* a text is the sequence of the code points of its characters.
\* the text of the record numbered n: "a", and for the second record two
\* lines with a leading blank and a trailing vertical tab, " b\nc\x0b"
TextOf(n) == IF n = 2 THEN <<32, 98, 10, 99, 11>> ELSE <<97>>

SrtRecords(n) ==
    {[index |-> n, start |-> a, end |-> b, text |-> TextOf(n)] :
        a \in SubStamps, b \in SubStamps}

\* SRT files of at most MaxSubs records, numbered upwards or downwards
SrtFiles ==
    UNION {{f \in [1..n -> UNION {SrtRecords(k) : k \in 1..n}] :
              \/ \A k \in 1..n : f[k].index = k
              \/ \A k \in 1..n : f[k].index = n + 1 - k} : n \in 0..MaxSubs}

\* ------------------------------------------------------------------- state
VARIABLES
    pc,                      \* where main() stands
    args,                    \* the command line
    audio_events,            \* list(auditok.split(...))
    ev,                      \* events consumed by the derivation loop
    cur_pos,
    silence_segments,
    loaded_audio_for_ns,     \* TRUE when auditok.load succeeded
    srt_file,                \* the records of args.file_to_fix, as read
    segments,                \* parse_srt(args.file_to_fix)
    pos,                     \* subtitles consumed by `for s in segments`
    index,                   \* silence pointer / position in full_list
    full_list,
    output_file,             \* the records written to args.output
    non_speech_srt_entries,
    non_speech_file_counter,
    saved_clips,             \* names of the clips this run has saved
    failed_saves,            \* "Error saving non-speech segment" log lines
    ns_srt_file,             \* the records of non-speech.srt on disk
    run,                     \* 1, or 2 when the output is fed back in
    prev_output              \* the output of run 1, during run 2

vars == <<pc, args, audio_events, ev, cur_pos, silence_segments,
          loaded_audio_for_ns, srt_file, segments, pos, index, full_list,
          output_file, non_speech_srt_entries, non_speech_file_counter,
          saved_clips, failed_saves, ns_srt_file, run, prev_output>>

Init ==
    /\ pc = "build"
    /\ args \in [subtract_only : BOOLEAN, non_speech_dir : BOOLEAN]
    /\ audio_events \in EventLists
    /\ ev = 0
    /\ cur_pos = 0
    /\ silence_segments = <<>>
    /\ loaded_audio_for_ns = FALSE
    /\ srt_file = <<>>
    /\ segments = <<>>
    /\ pos = 0
    /\ index = 0
    /\ full_list = <<>>
    /\ output_file = <<>>
    /\ non_speech_srt_entries = <<>>
    /\ non_speech_file_counter = 1
    /\ saved_clips = <<>>
    /\ failed_saves = 0
    /\ ns_srt_file = <<>>
    /\ run = 1
    /\ prev_output = <<>>

\* ------------------------------------------------- silence segment builder
\* C15 mutant: no window is taken off the candidate
CandidateNoWindow(cur, r) == [start |-> cur, end |-> r.start]

\* C6 mutant: the window is added at the cursor 0 too
CandidateWindowAtZero(cur, r) ==
    [start |-> Plus(cur, WindowTicks), end |-> Minus(r.start, WindowTicks)]

\* the candidate silence before event r, given the cursor
Candidate(cur, r) ==
    [start |-> IF cur > 0 THEN Plus(cur, WindowTicks) ELSE cur,
     end   |-> Minus(r.start, WindowTicks)]

\* C5 mutant: no candidate is dropped
DroppedNever(c) == FALSE

\* `if end - start < args.min_silence_dur: continue`
Dropped(c) == ShorterThan(c.start, c.end, min_silence_dur)

\* one iteration of `for i, r in enumerate(audio_events)` (not --negate)
BuildStep ==
    /\ pc = "build"
    /\ ev < Len(audio_events)
    /\ LET r == audio_events[ev + 1]
           c == Candidate(cur_pos, r)
       IN  /\ cur_pos' = r.end
           /\ silence_segments' =
                 IF Dropped(c) THEN silence_segments
                 ELSE Append(silence_segments, c)
    /\ ev' = ev + 1
    /\ UNCHANGED <<pc, args, audio_events, loaded_audio_for_ns, srt_file,
                   segments, pos, index, full_list, output_file,
                   non_speech_srt_entries, non_speech_file_counter,
                   saved_clips, failed_saves, ns_srt_file, run, prev_output>>

\* the loop is over; `if args.non_speech_dir:` try auditok.load(args.input)
LoadAudio ==
    /\ pc = "build"
    /\ ev = Len(audio_events)
    /\ \E ok \in BOOLEAN : loaded_audio_for_ns' = (args.non_speech_dir /\ ok)
    /\ pc' = "parse"
    /\ UNCHANGED <<args, audio_events, ev, cur_pos, silence_segments, srt_file,
                   segments, pos, index, full_list, output_file,
                   non_speech_srt_entries, non_speech_file_counter,
                   saved_clips, failed_saves, ns_srt_file, run, prev_output>>

\* ----------------------------------------------------------------- parsing
\* list.sort(key=...): stable, ascending
\* the sort key: x['index'] in parse_srt, x['start'] in main()
KeyOf(field, x) == IF field = "index" THEN x.index ELSE x.start

RECURSIVE InsertBy(_, _, _)
InsertBy(field, x, sorted) ==
    IF sorted = <<>> THEN <<x>>
    ELSE IF KeyOf(field, sorted[Len(sorted)]) <= KeyOf(field, x)
         THEN Append(sorted, x)
    ELSE Append(InsertBy(field, x, SubSeq(sorted, 1, Len(sorted) - 1)),
                sorted[Len(sorted)])

RECURSIVE SortBy(_, _)
SortBy(field, list) ==
    IF list = <<>> THEN <<>>
    ELSE InsertBy(field, list[Len(list)],
                  SortBy(field, SubSeq(list, 1, Len(list) - 1)))

\* the code points str.strip() removes: those for which str.isspace() holds
Whitespace ==
    {9, 10, 11, 12, 13, 28, 29, 30, 31, 32, 133, 160, 5760}
        \cup (8192..8202) \cup {8232, 8233, 8239, 8287, 12288}

\* str.strip(): the text without its leading and trailing white space
RECURSIVE StripLeft(_)
StripLeft(text) ==
    IF text # <<>> /\ text[1] \in Whitespace
    THEN StripLeft(SubSeq(text, 2, Len(text)))
    ELSE text

RECURSIVE StripRight(_)
StripRight(text) ==
    IF text # <<>> /\ text[Len(text)] \in Whitespace
    THEN StripRight(SubSeq(text, 1, Len(text) - 1))
    ELSE text

\* match.group(4).strip().replace('\n', ' ')
CleanText(text) ==
    LET stripped == StripRight(StripLeft(text))
    IN  [k \in 1..Len(stripped) |->
            IF stripped[k] = 10 THEN 32 ELSE stripped[k]]

parse_srt(file) ==
    SortBy("index",
           [k \in 1..Len(file) |->
               [index      |-> file[k].index,
                start_time |-> time_to_seconds(file[k].start),
                end_time   |-> time_to_seconds(file[k].end),
                text       |-> CleanText(file[k].text)]])

\* full_list: the subtitles, then the silences, sorted by start
SegmentEntry(s) ==
    [start |-> s.start_time, end |-> s.end_time, text |-> s.text,
     index |-> s.index, kind |-> "segment"]
SilenceEntry(s) ==
    [start |-> s.start, end |-> s.end, text |-> <<>>, index |-> 0,
     kind |-> "silence"]

MergedList(segs, silences) ==
    SortBy("start",
           [k \in 1..Len(segs) |-> SegmentEntry(segs[k])]
           \o [k \in 1..Len(silences) |-> SilenceEntry(silences[k])])

\* the record main() writes for a subtitle
Written(idx, start, end, text) ==
    [index |-> idx, start |-> seconds_to_srt_time(start),
     end |-> seconds_to_srt_time(end), text |-> text]

\* segments = parse_srt(args.file_to_fix); with no segments main() returns;
\* otherwise the loop of the chosen mode is set up
ParseSrt ==
    /\ pc = "parse"
    /\ \E file \in (IF run = 1 THEN SrtFiles ELSE {prev_output}) :
          /\ srt_file' = file
          /\ segments' = parse_srt(file)
    /\ pos' = 0
    /\ index' = 0
    /\ output_file' = <<>>
    /\ IF segments' = <<>>
       THEN pc' = "done" /\ full_list' = <<>>
       ELSE IF args.subtract_only
       THEN pc' = "subtract" /\ full_list' = <<>>
       ELSE pc' = "walk" /\ full_list' = MergedList(segments', silence_segments)
    /\ UNCHANGED <<args, audio_events, ev, cur_pos, silence_segments,
                   loaded_audio_for_ns, non_speech_srt_entries,
                   non_speech_file_counter, saved_clips, failed_saves, ns_srt_file, run,
                   prev_output>>

\* ----------------------------------------------------------- subtract only
\* `while index < len(silence_segments) and silence_segments[index][1] < t`
RECURSIVE SkipSilences(_, _, _)
SkipSilences(silences, idx, t) ==
    IF idx < Len(silences) /\ silences[idx + 1].end < t
    THEN SkipSilences(silences, idx + 1, t)
    ELSE idx

\* the start of a subtitle [start, end] against the silence at the pointer
TrimStart(silences, idx, start, end) ==
    IF /\ idx < Len(silences)
       /\ silences[idx + 1].start < start
       /\ start < silences[idx + 1].end
       /\ silences[idx + 1].end < end
    THEN silences[idx + 1].end
    ELSE start

\* the end of a subtitle [start, end] against the silence at the pointer
TrimEnd(silences, idx, start, end) ==
    IF /\ idx < Len(silences)
       /\ silences[idx + 1].start > start
       /\ end < silences[idx + 1].end
       /\ silences[idx + 1].start < end
    THEN silences[idx + 1].start
    ELSE end

\* one iteration of `for s in segments` in the subtract_only branch
SubtractStep ==
    /\ pc = "subtract"
    /\ pos < Len(segments)
    /\ LET s     == segments[pos + 1]
           idx1  == SkipSilences(silence_segments, index, s.start_time)
           start == TrimStart(silence_segments, idx1, s.start_time, s.end_time)
           idx2  == SkipSilences(silence_segments, idx1, s.end_time)
           end   == TrimEnd(silence_segments, idx2, start, s.end_time)
       IN  /\ index' = idx2
           /\ output_file' = Append(output_file, Written(s.index, start, end, s.text))
    /\ pos' = pos + 1
    /\ UNCHANGED <<pc, args, audio_events, ev, cur_pos, silence_segments,
                   loaded_audio_for_ns, srt_file, segments, full_list,
                   non_speech_srt_entries, non_speech_file_counter,
                   saved_clips, failed_saves, ns_srt_file, run, prev_output>>

\* the subtract_only loop is over
SubtractEnd ==
    /\ pc = "subtract"
    /\ pos = Len(segments)
    /\ pc' = "finish"
    /\ UNCHANGED <<args, audio_events, ev, cur_pos, silence_segments,
                   loaded_audio_for_ns, srt_file, segments, pos, index,
                   full_list, output_file, non_speech_srt_entries,
                   non_speech_file_counter, saved_clips, failed_saves, ns_srt_file, run,
                   prev_output>>

\* --------------------------------------------------------- expand/subtract
\* C14 mutant: the start is moved whatever the end of the preceding silence
AdjustedUnguarded(list, i) ==
    LET s == list[i + 1]
        s1 == IF i - 1 >= 0 /\ list[i].kind = "silence"
              THEN [s EXCEPT !.start = list[i].end]
              ELSE s
    IN  IF i + 1 < Len(list) /\ list[i + 2].kind = "silence"
        THEN [s1 EXCEPT !.end = list[i + 2].start]
        ELSE s1

\* the subtitle at position i (0-based) of list, its start moved to the end of
\* a silence just before it, its end moved to the start of a silence just
\* after it
Adjusted(list, i) ==
    LET s == list[i + 1]
        s1 == IF /\ i - 1 >= 0
                 /\ list[i].kind = "silence"
                 /\ list[i].end < s.end
              THEN [s EXCEPT !.start = list[i].end]
              ELSE s
    IN  IF i + 1 < Len(list) /\ list[i + 2].kind = "silence"
        THEN [s1 EXCEPT !.end = list[i + 2].start]
        ELSE s1

\* C7 mutant: the check is gone
InvalidNever(s) == FALSE

\* `if s['start'] > s['end']: raise ValueError`
Invalid(s) == s.start > s.end

\* one iteration of `while index < len(full_list)`, on a subtitle
WalkSegment ==
    /\ pc = "walk"
    /\ index < Len(full_list)
    /\ full_list[index + 1].kind = "segment"
    /\ LET s == Adjusted(full_list, index)
       IN  /\ full_list' = [full_list EXCEPT ![index + 1] = s]
           /\ IF Invalid(s)
              THEN /\ pc' = "error"
                   /\ UNCHANGED <<index, output_file>>
              ELSE /\ pc' = pc
                   /\ index' = index + 1
                   /\ output_file' =
                         Append(output_file, Written(s.index, s.start, s.end, s.text))
    /\ UNCHANGED <<args, audio_events, ev, cur_pos, silence_segments,
                   loaded_audio_for_ns, srt_file, segments, pos,
                   non_speech_srt_entries, non_speech_file_counter,
                   saved_clips, failed_saves, ns_srt_file, run, prev_output>>

\* C8 mutant: the window is not taken off the range
NsRangeNoWindow(list, i) ==
    [start |-> list[i + 1].end, end |-> list[i + 2].start]

\* the audio between the silence at position i and the silence after it
NsRange(list, i) ==
    [start |-> Plus(list[i + 1].end, WindowTicks),
     end   |-> Minus(list[i + 2].start, WindowTicks)]

\* two silences in a row, and a range of positive duration between them
Orphan(list, i) ==
    /\ i + 1 < Len(list)
    /\ list[i + 2].kind = "silence"
    /\ NsRange(list, i).end > NsRange(list, i).start

\* "start of audio"
StartOfAudio ==
    [index |-> 0,
     text |-> <<115, 116, 97, 114, 116, 32, 111, 102, 32, 97, 117, 100, 105, 111>>]
\* "end of audio"
EndOfAudio ==
    [index |-> 0,
     text |-> <<101, 110, 100, 32, 111, 102, 32, 97, 117, 100, 105, 111>>]

\* the nearest subtitle before position i
PrevAsr(list, i) ==
    LET found == {k \in 1..i : list[k].kind = "segment"}
    IN  IF found = {} THEN StartOfAudio
        ELSE LET k == CHOOSE m \in found : \A n \in found : n <= m
             IN  [index |-> list[k].index, text |-> list[k].text]

\* the nearest subtitle after position i + 1
NextAsr(list, i) ==
    LET found == {k \in (i + 3)..Len(list) : list[k].kind = "segment"}
    IN  IF found = {} THEN EndOfAudio
        ELSE LET k == CHOOSE m \in found : \A n \in found : m <= n
             IN  [index |-> list[k].index, text |-> list[k].text]

\* the decimal digits of n >= 0, most significant first
RECURSIVE Digits(_)
Digits(n) == IF n < 10 THEN <<n>> ELSE Append(Digits(n \div 10), n % 10)

\* zeros put before digits until there are at least width of them
RECURSIVE ZeroPad(_, _)
ZeroPad(digits, width) ==
    IF Len(digits) >= width THEN digits ELSE ZeroPad(<<0>> \o digits, width)

\* f"{non_speech_file_counter:04d}.wav", as its digits
ClipName(n) == ZeroPad(Digits(n), 4)

NsEntry(list, i, n) ==
    [index      |-> n,
     start_time |-> NsRange(list, i).start,
     end_time   |-> NsRange(list, i).end,
     prev       |-> PrevAsr(list, i),
     next       |-> NextAsr(list, i)]

\* C9 mutant: a failed save consumes a number too
CounterAfterAlways(n, saved) == n + 1

\* the counter after a clip was saved (saved = TRUE) or failed to save
CounterAfter(n, saved) == IF saved THEN n + 1 ELSE n

\* one iteration of `while index < len(full_list)`, on a silence; `saved`
\* tells whether slicing and saving the clip succeeds if it is tried
WalkSilence ==
    /\ pc = "walk"
    /\ index < Len(full_list)
    /\ full_list[index + 1].kind = "silence"
    /\ \E saved \in BOOLEAN :
          IF /\ Orphan(full_list, index)
             /\ args.non_speech_dir
             /\ loaded_audio_for_ns
          THEN /\ non_speech_srt_entries' =
                     IF saved
                     THEN Append(non_speech_srt_entries,
                                 NsEntry(full_list, index, non_speech_file_counter))
                     ELSE non_speech_srt_entries
               /\ saved_clips' =
                     IF saved
                     THEN Append(saved_clips, ClipName(non_speech_file_counter))
                     ELSE saved_clips
               /\ non_speech_file_counter' =
                     CounterAfter(non_speech_file_counter, saved)
               /\ failed_saves' = IF saved THEN failed_saves ELSE failed_saves + 1
          ELSE UNCHANGED <<non_speech_srt_entries, saved_clips, failed_saves,
                           non_speech_file_counter>>
    /\ index' = index + 1
    /\ UNCHANGED <<pc, args, audio_events, ev, cur_pos, silence_segments,
                   loaded_audio_for_ns, srt_file, segments, pos, full_list,
                   output_file, ns_srt_file, run, prev_output>>

\* the walk is over
WalkEnd ==
    /\ pc = "walk"
    /\ index = Len(full_list)
    /\ pc' = "finish"
    /\ UNCHANGED <<args, audio_events, ev, cur_pos, silence_segments,
                   loaded_audio_for_ns, srt_file, segments, pos, index,
                   full_list, output_file, non_speech_srt_entries,
                   non_speech_file_counter, saved_clips, failed_saves, ns_srt_file, run,
                   prev_output>>

\* `if args.non_speech_dir and non_speech_srt_entries:` write non-speech.srt
WriteNonSpeech ==
    /\ pc = "finish"
    /\ ns_srt_file' =
          IF args.non_speech_dir /\ non_speech_srt_entries # <<>>
          THEN [k \in 1..Len(non_speech_srt_entries) |->
                   [index |-> non_speech_srt_entries[k].index,
                    start |-> seconds_to_srt_time(non_speech_srt_entries[k].start_time),
                    end   |-> seconds_to_srt_time(non_speech_srt_entries[k].end_time),
                    prev  |-> non_speech_srt_entries[k].prev,
                    next  |-> non_speech_srt_entries[k].next]]
          ELSE ns_srt_file
    /\ pc' = "done"
    /\ UNCHANGED <<args, audio_events, ev, cur_pos, silence_segments,
                   loaded_audio_for_ns, srt_file, segments, pos, index,
                   full_list, output_file, non_speech_srt_entries,
                   non_speech_file_counter, saved_clips, failed_saves, run, prev_output>>

\* the program is run again on the same audio, with the SRT file it wrote as
\* the file to fix and another output file: main() starts from its first
\* line, derives the silence segments again and loads the audio again; the
\* non-speech.srt of the first run stays in the directory
Rerun ==
    /\ pc = "done"
    /\ run = 1
    /\ segments # <<>>
    /\ run' = 2
    /\ prev_output' = output_file
    /\ pc' = "build"
    /\ ev' = 0
    /\ cur_pos' = 0
    /\ silence_segments' = <<>>
    /\ loaded_audio_for_ns' = FALSE
    /\ srt_file' = <<>>
    /\ segments' = <<>>
    /\ pos' = 0
    /\ index' = 0
    /\ full_list' = <<>>
    /\ output_file' = <<>>
    /\ non_speech_srt_entries' = <<>>
    /\ non_speech_file_counter' = 1
    /\ saved_clips' = <<>>
    /\ failed_saves' = 0
    /\ UNCHANGED <<args, audio_events, ns_srt_file>>

Next ==
    \/ BuildStep
    \/ LoadAudio
    \/ ParseSrt
    \/ SubtractStep
    \/ SubtractEnd
    \/ WalkSegment
    \/ WalkSilence
    \/ WalkEnd
    \/ WriteNonSpeech

Spec == Init /\ [][Next]_vars

NextRerun == Next \/ Rerun

SpecRerun == Init /\ [][NextRerun]_vars

\* the derivation of the silence segments alone
NextBuild == BuildStep

SpecBuild == Init /\ [][NextBuild]_vars

\* expand/subtract mode with --non-speech-dir
InitExpand ==
    /\ Init
    /\ args = [subtract_only |-> FALSE, non_speech_dir |-> TRUE]

NextExpand ==
    \/ BuildStep
    \/ LoadAudio
    \/ ParseSrt
    \/ WalkSegment
    \/ WalkSilence
    \/ WalkEnd
    \/ WriteNonSpeech

SpecExpand == InitExpand /\ [][NextExpand]_vars

\* event boundaries (ms) at the edges of the float arithmetic: a first event
\* at 0.06 s leaves the candidate [0, 0.06 - 0.01], which is the float
\* 0.049999999999999996 and shorter than min_silence_dur, one at 0.07 s
\* leaves [0, 0.060000000000000005]; the float 1.995 + 0.01 lies in the
\* binade [2, 4) and (1.995 + 0.01) - 0.01 is 1.9949999999999999
EdgeEventStamps == {60, 70, 1000, 1995, 2250, 2310}

EdgeEventRegions ==
    {[start |-> time_to_seconds(p[1]), end |-> time_to_seconds(p[2])] :
        p \in {q \in EdgeEventStamps \X EdgeEventStamps : q[1] < q[2]}}

EdgeEventLists ==
    {e \in UNION {[1..n -> EdgeEventRegions] : n \in 0..MaxEvents} :
        \A k \in 1..(Len(e) - 1) : e[k].end <= e[k + 1].start}

\* expand/subtract mode on events from EdgeEventLists
InitEdge ==
    /\ pc = "build"
    /\ args = [subtract_only |-> FALSE, non_speech_dir |-> TRUE]
    /\ audio_events \in EdgeEventLists
    /\ ev = 0
    /\ cur_pos = 0
    /\ silence_segments = <<>>
    /\ loaded_audio_for_ns = FALSE
    /\ srt_file = <<>>
    /\ segments = <<>>
    /\ pos = 0
    /\ index = 0
    /\ full_list = <<>>
    /\ output_file = <<>>
    /\ non_speech_srt_entries = <<>>
    /\ non_speech_file_counter = 1
    /\ saved_clips = <<>>
    /\ failed_saves = 0
    /\ ns_srt_file = <<>>
    /\ run = 1
    /\ prev_output = <<>>

SpecEdge == InitEdge /\ [][NextExpand]_vars

\* the derivation of the silence segments alone, on events from EdgeEventLists
SpecBuildEdge == InitEdge /\ [][NextBuild]_vars

\* ------------------------------------------------------------------ claims
\* the records of the file to fix in the order parse_srt puts them
InputSorted == SortBy("index", srt_file)

\* C1: in subtract-only mode every subtitle with start <= end is written with
\* original.start <= written.start <= written.end <= original.end.
C1_SubtractWithinOriginal ==
    args.subtract_only =>
        \A k \in 1..Len(output_file) :
            InputSorted[k].start <= InputSorted[k].end =>
                /\ InputSorted[k].start <= output_file[k].start
                /\ output_file[k].start <= output_file[k].end
                /\ output_file[k].end <= InputSorted[k].end

\* the candidate silence that ends at event k: it starts at 0 for the first
\* event and a window after the end of event k - 1 otherwise
GapBefore(k) ==
    [start |-> IF k = 1 THEN 0 ELSE Plus(audio_events[k - 1].end, WindowTicks),
     end   |-> Minus(audio_events[k].start, WindowTicks)]

LongEnough(g) == Minus(g.end, g.start) >= FloatOfMillis(min_silence_dur)

\* the events consumed so far whose gap is long enough
KeptGaps == {k \in 1..ev : LongEnough(GapBefore(k))}

\* C5: the silence segments are pairwise disjoint, strictly increasing by
\* start and at least min_silence_dur long; they are the gaps before the
\* events that are long enough, so a dropped candidate still moves the cursor
\* to the end of its event.
C5_SilencesDisjointOrdered ==
    /\ \A k \in 1..Len(silence_segments) :
          /\ LongEnough(silence_segments[k])
          /\ silence_segments[k].start <= silence_segments[k].end
          /\ k < Len(silence_segments) =>
                silence_segments[k].end < silence_segments[k + 1].start
    /\ cur_pos = (IF ev = 0 THEN 0 ELSE audio_events[ev].end)
    /\ Len(silence_segments) = Cardinality(KeptGaps)
    /\ \A k \in KeptGaps :
          silence_segments[Cardinality({j \in KeptGaps : j <= k})] = GapBefore(k)

\* C5 witness: three events were consumed, one candidate was dropped and two
\* silences were kept
C5_Witness ==
    /\ ev = 3
    /\ Len(silence_segments) = 2
    /\ Cardinality(KeptGaps) < ev

\* C6 as stated: only gaps between events are derived, so one event gives no
\* silence segment and n events give at most n - 1
C6_NoLeadingSilence ==
    ev >= 1 =>
        /\ Len(silence_segments) <= ev - 1
        /\ \A k \in 1..Len(silence_segments) :
              silence_segments[k].start >= audio_events[1].end

\* the candidate before the first event: from 0, no window added, to a window
\* before the event
LeadingGap ==
    [start |-> 0, end |-> Minus(audio_events[1].start, WindowTicks)]

\* C6 amended: the gap from 0 to a window before the first event is derived
\* too, without a window added at 0, and is the first silence when its float
\* length is at least min_silence_dur; when it is shorter no silence starts
\* at 0 and n events give at most n - 1 silences; the other silences lie
\* between two events; n events give at most n silences.
C6_LeadingSilenceDerived ==
    ev >= 1 =>
        /\ Len(silence_segments) <= ev
        /\ LongEnough(LeadingGap) => silence_segments[1] = LeadingGap
        /\ ~LongEnough(LeadingGap) =>
              /\ Len(silence_segments) <= ev - 1
              /\ \A k \in 1..Len(silence_segments) :
                    silence_segments[k].start > 0
        /\ \A k \in 2..Len(silence_segments) :
              \E j \in 1..(ev - 1) :
                  /\ silence_segments[k].start
                        = Plus(audio_events[j].end, WindowTicks)
                  /\ silence_segments[k].end
                        = Minus(audio_events[j + 1].start, WindowTicks)

\* C6 witness: two events gave two silences, the first one from 0 to the
\* float 0.07 - 0.01, which is longer than the leading candidate that a first
\* event at 0.06 s leaves and that is dropped
C6_Witness ==
    /\ ev = 2
    /\ Len(audio_events) = 2
    /\ Len(silence_segments) = 2
    /\ silence_segments[1] = LeadingGap
    /\ audio_events[1].start = time_to_seconds(70)
    /\ ~LongEnough([start |-> 0,
                    end |-> Minus(time_to_seconds(60), WindowTicks)])

\* the written record of the subtitle at position p (1-based) of full_list
WrittenFor(p) ==
    output_file[Cardinality({q \in 1..p : full_list[q].kind = "segment"})]

\* the subtitle at position p has been written and lies between two silences
BetweenSilences(p) ==
    /\ p \in 2..index
    /\ p < Len(full_list)
    /\ full_list[p].kind = "segment"
    /\ full_list[p - 1].kind = "silence"
    /\ full_list[p + 1].kind = "silence"

\* C2: in expand/subtract mode a subtitle whose neighbours in the merged
\* timeline are both silences is written with its start exactly at the end
\* of the preceding silence and its end exactly at the start of the
\* following silence
C2_SpansBetweenSilences ==
    ~args.subtract_only =>
        \A p \in 1..index :
            BetweenSilences(p) =>
                /\ time_to_seconds(WrittenFor(p).start) = full_list[p - 1].end
                /\ time_to_seconds(WrittenFor(p).end) = full_list[p + 1].start

\* every record of the second output has the time stamps the first output
\* gave the subtitle of that number
SameAsFirstOutput ==
    \A k \in 1..Len(output_file) :
        \E j \in 1..Len(prev_output) :
            /\ prev_output[j].index = output_file[k].index
            /\ prev_output[j].start = output_file[k].start
            /\ prev_output[j].end = output_file[k].end

\* C3: a second expand/subtract pass over the output of a completed first
\* pass, with the same silences, changes no start and no end
C3_ExpandIdempotent ==
    (~args.subtract_only /\ run = 2 /\ pc = "done") => SameAsFirstOutput

\* C4: a second subtract-only pass over the output of the first, with the
\* same silences, changes no start and no end
C4_SubtractIdempotent ==
    (args.subtract_only /\ run = 2 /\ pc = "done") => SameAsFirstOutput

\* the subtitles among the first n entries of full_list
SegmentsUpTo(n) == {q \in 1..n : full_list[q].kind = "segment"}

\* C7: in expand/subtract mode a subtitle whose adjusted start is greater
\* than its adjusted end stops the pass: every subtitle passed has
\* start <= end and is written, with start <= end; at the error the subtitle
\* at hand has start > end, and neither it nor any later entry is written.
C7_InvalidRaises ==
    (~args.subtract_only /\ pc \in {"walk", "finish", "done", "error"}) =>
        /\ \A q \in SegmentsUpTo(index) : full_list[q].start <= full_list[q].end
        /\ \A k \in 1..Len(output_file) : output_file[k].start <= output_file[k].end
        /\ Len(output_file) = Cardinality(SegmentsUpTo(index))
        /\ \A q \in SegmentsUpTo(index) : WrittenFor(q).index = full_list[q].index
        /\ pc = "error" =>
              /\ full_list[index + 1].kind = "segment"
              /\ full_list[index + 1].start > full_list[index + 1].end
        /\ (pc = "walk" /\ index < Len(full_list)
                /\ full_list[index + 1].kind = "segment"
                /\ Adjusted(full_list, index).start > Adjusted(full_list, index).end)
              => ~ENABLED (WalkSegment /\ pc' # "error")

\* C7 witness: the pass stopped at a subtitle after it had written another
C7_Witness ==
    /\ pc = "error"
    /\ output_file # <<>>
    /\ Len(output_file) < Len(segments)

\* the silences among the first n entries of full_list that are followed by
\* a silence, the range between the two, less a window at each end, being of
\* positive duration
OrphansUpTo(n) ==
    {p \in 1..n :
        /\ p < Len(full_list)
        /\ full_list[p].kind = "silence"
        /\ full_list[p + 1].kind = "silence"
        /\ Plus(full_list[p].end, WindowTicks)
              < Minus(full_list[p + 1].start, WindowTicks)}

RankIn(S, p) == Cardinality({q \in S : q <= p})

\* C8: with a non-speech directory, the audio loaded and no save failed, the
\* non-speech entries are one per pair of silences A, B consecutive in the
\* timeline with A.end + tol < B.start - tol, with that range.
C8_OneEntryPerOrphan ==
    (/\ ~args.subtract_only
     /\ args.non_speech_dir
     /\ loaded_audio_for_ns
     /\ failed_saves = 0
     /\ pc \in {"walk", "finish", "done", "error"}) =>
        /\ Len(non_speech_srt_entries) = Cardinality(OrphansUpTo(index))
        /\ \A p \in OrphansUpTo(index) :
              LET e == non_speech_srt_entries[RankIn(OrphansUpTo(index), p)]
              IN  /\ e.start_time = Plus(full_list[p].end, WindowTicks)
                  /\ e.end_time = Minus(full_list[p + 1].start, WindowTicks)

\* C8 witness: a completed pass with two entries and no failed save
C8_Witness ==
    /\ pc = "done"
    /\ failed_saves = 0
    /\ Len(non_speech_srt_entries) = 2
    /\ Len(ns_srt_file) = 2

\* C9: the non-speech entries are numbered 1, 2, ..., n in order of start
\* time, the clip of entry k is named by k in four digits, and
\* non-speech.srt lists them in that order, also when saves failed.
C9_SequentialNumbers ==
    /\ non_speech_file_counter = Len(non_speech_srt_entries) + 1
    /\ Len(saved_clips) = Len(non_speech_srt_entries)
    /\ \A k \in 1..Len(non_speech_srt_entries) :
          /\ non_speech_srt_entries[k].index = k
          /\ Len(saved_clips[k]) = 4
          /\ \A d \in 1..4 : saved_clips[k][d] \in 0..9
          /\ saved_clips[k][1] * 1000 + saved_clips[k][2] * 100
                + saved_clips[k][3] * 10 + saved_clips[k][4] = k
          /\ k < Len(non_speech_srt_entries) =>
                non_speech_srt_entries[k].start_time
                    < non_speech_srt_entries[k + 1].start_time
    /\ (pc = "done" /\ ns_srt_file # <<>>) =>
          /\ Len(ns_srt_file) = Len(non_speech_srt_entries)
          /\ \A k \in 1..Len(ns_srt_file) : ns_srt_file[k].index = k

\* C9 witness: the save of the first orphan failed, the second orphan was
\* saved and is entry 1
C9_Witness ==
    /\ pc = "done"
    /\ failed_saves = 1
    /\ Len(non_speech_srt_entries) = 1
    /\ Cardinality(OrphansUpTo(Len(full_list))) = 2
    /\ \E p \in OrphansUpTo(Len(full_list)) :
          /\ RankIn(OrphansUpTo(Len(full_list)), p) = 2
          /\ non_speech_srt_entries[1].start_time
                = Plus(full_list[p].end, WindowTicks)

\* C10: in both modes the output lists every subtitle once, in ascending
\* order of index, with the index and text parse_srt gave it
C10_WrittenInIndexOrder ==
    pc = "done" =>
        /\ Len(output_file) = Len(segments)
        /\ \A k \in 1..Len(output_file) :
              /\ output_file[k].index = segments[k].index
              /\ output_file[k].text = segments[k].text

\* two ranges share a stretch of positive length
Overlaps(a, b) ==
    (IF a.start >= b.start THEN a.start ELSE b.start)
        < (IF a.end <= b.end THEN a.end ELSE b.end)

\* C11: after a completed expand/subtract pass every corrected subtitle has
\* start <= end and shares no stretch of positive length with a silence
\* segment or with another corrected subtitle
C11_DisjointAfterPass ==
    (~args.subtract_only /\ pc = "done") =>
        \A p \in 1..Len(full_list) :
            full_list[p].kind = "segment" =>
                /\ full_list[p].start <= full_list[p].end
                /\ \A q \in 1..Len(full_list) :
                      q # p => ~Overlaps(full_list[p], full_list[q])

\* event boundaries (ms) such that a silence starts where a subtitle of
\* SubStamps starts: an event ending at 2.100 s is followed by a silence from
\* 2.1 + 0.01, which is the float of 2.110 s
TieEventStamps == {2050, 2100, 2210, 2340, 2460}

TieEventRegions ==
    {[start |-> time_to_seconds(p[1]), end |-> time_to_seconds(p[2])] :
        p \in {q \in TieEventStamps \X TieEventStamps : q[1] < q[2]}}

TieEventLists ==
    {e \in UNION {[1..n -> TieEventRegions] : n \in 0..MaxEvents} :
        \A k \in 1..(Len(e) - 1) : e[k].end <= e[k + 1].start}

\* expand/subtract mode on events from TieEventLists
InitTie ==
    /\ pc = "build"
    /\ args = [subtract_only |-> FALSE, non_speech_dir |-> TRUE]
    /\ audio_events \in TieEventLists
    /\ ev = 0
    /\ cur_pos = 0
    /\ silence_segments = <<>>
    /\ loaded_audio_for_ns = FALSE
    /\ srt_file = <<>>
    /\ segments = <<>>
    /\ pos = 0
    /\ index = 0
    /\ full_list = <<>>
    /\ output_file = <<>>
    /\ non_speech_srt_entries = <<>>
    /\ non_speech_file_counter = 1
    /\ saved_clips = <<>>
    /\ failed_saves = 0
    /\ ns_srt_file = <<>>
    /\ run = 1
    /\ prev_output = <<>>

SpecTie == InitTie /\ [][NextExpand]_vars

\* the positions of full_list where a silence and a subtitle start together
TiedWith(p) ==
    {q \in 1..Len(full_list) :
        /\ full_list[q].kind # full_list[p].kind
        /\ full_list[q].start = full_list[p].start}

\* C12: in the merged timeline a silence segment stands before every subtitle
\* that starts at the same time
C12_SilenceFirstAtTie ==
    (~args.subtract_only /\ pc = "walk" /\ index = 0) =>
        \A p \in 1..Len(full_list) :
            full_list[p].kind = "silence" => \A q \in TiedWith(p) : p < q

\* the silence sil reaches into the subtitle s as read: they share a stretch
\* of positive length, or the start or the end of s is strictly inside sil
Affects(sil, s) ==
    \/ Overlaps(sil, [start |-> s.start_time, end |-> s.end_time])
    \/ sil.start < s.start_time /\ s.start_time < sil.end
    \/ sil.start < s.end_time /\ s.end_time < sil.end

\* C13: in subtract-only mode no silence segment the pointer has moved past
\* reaches into a subtitle that is still to be processed
C13_SkippedSilencesAreDone ==
    (args.subtract_only /\ pc = "subtract") =>
        \A k \in 1..index :
            \A j \in (pos + 1)..Len(segments) :
                ~Affects(silence_segments[k], segments[j])

\* every record of the file to fix has start <= end
InputValid == \A k \in 1..Len(srt_file) : srt_file[k].start <= srt_file[k].end

\* C14: in expand/subtract mode, when every input subtitle has start <= end,
\* the start > end error is never raised, every subtitle written has
\* start <= end, and a completed pass has written every subtitle
C14_NoErrorOnValidInput ==
    (~args.subtract_only /\ InputValid) =>
        /\ pc # "error"
        /\ \A p \in 1..index :
              full_list[p].kind = "segment" => full_list[p].start <= full_list[p].end
        /\ \A k \in 1..Len(output_file) : output_file[k].start <= output_file[k].end
        /\ pc = "done" => Len(output_file) = Len(segments)

\* C14 witness: a completed pass over two subtitles with start <= end, one of
\* which starts where a silence starts and one of which starts inside a
\* silence that ends at or after the subtitle's end
C14_Witness ==
    /\ pc = "done"
    /\ InputValid
    /\ Len(output_file) = 2
    /\ \E j \in 1..Len(segments) : \E k \in 1..Len(silence_segments) :
          silence_segments[k].start = segments[j].start_time
    /\ \E j \in 1..Len(segments) : \E k \in 1..Len(silence_segments) :
          /\ silence_segments[k].start < segments[j].start_time
          /\ silence_segments[k].end >= segments[j].end_time

\* the positions p of full_list with a silence at p and a silence at p + 1
SilencePairs ==
    {p \in 1..(Len(full_list) - 1) :
        full_list[p].kind = "silence" /\ full_list[p + 1].kind = "silence"}

\* the acoustic events that lie between the silences at p and at p + 1
EventsBetween(p) ==
    {k \in 1..Len(audio_events) :
        /\ full_list[p].end < audio_events[k].start
        /\ audio_events[k].end < full_list[p + 1].start}

\* C15 as stated: for every two silences consecutive in the merged timeline
\* the range [A.end + tol, B.start - tol] is equal to [first.start, last.end]
\* of the acoustic events between them and has positive duration, so the
\* non-positive branch is not taken
C15_OrphanRangeIsEvents ==
    pc \in {"walk", "finish", "done", "error"} =>
        \A p \in SilencePairs :
            LET between == EventsBetween(p)
                range   == NsRange(full_list, p - 1)
            IN  /\ between # {}
                /\ \A k \in between :
                      /\ range.start <= audio_events[k].start
                      /\ audio_events[k].end <= range.end
                /\ \E k \in between : range.start = audio_events[k].start
                /\ \E k \in between : range.end = audio_events[k].end
                /\ range.start < range.end
                /\ Orphan(full_list, p - 1)

\* the floats a and b are equal or neighbours: they differ by at most the
\* spacing of the floats at b
Near(a, b) == (a - b) \in (-Ulp(b))..Ulp(b)

\* C15 amended: for every two silences consecutive in the merged timeline
\* there are acoustic events between them, the range
\* [(A.end + tol), (B.start - tol)] starts at the start of the first of them
\* and ends at the end of the last of them up to the rounding of the float
\* additions and subtractions of tol (one float spacing at most), and it has
\* positive duration, so the non-positive branch is not taken
C15_OrphanRangeNearEvents ==
    pc \in {"walk", "finish", "done", "error"} =>
        \A p \in SilencePairs :
            LET between == EventsBetween(p)
                range   == NsRange(full_list, p - 1)
            IN  /\ between # {}
                /\ \E k \in between :
                      /\ \A j \in between :
                            audio_events[k].start <= audio_events[j].start
                      /\ Near(range.start, audio_events[k].start)
                /\ \E k \in between :
                      /\ \A j \in between :
                            audio_events[j].end <= audio_events[k].end
                      /\ Near(range.end, audio_events[k].end)
                /\ range.start < range.end
                /\ Orphan(full_list, p - 1)

\* C15 witness: a completed pass in which two consecutive silences have two
\* acoustic events between them, the candidate between the two being dropped,
\* and the range between the silences ends one float below the end of the
\* last event, 1.995 s
C15_Witness ==
    /\ pc = "done"
    /\ output_file # <<>>
    /\ \E p \in SilencePairs :
          /\ Cardinality(EventsBetween(p)) = 2
          /\ \E k \in EventsBetween(p) :
                /\ audio_events[k].end = time_to_seconds(1995)
                /\ NsRange(full_list, p - 1).end < audio_events[k].end
                /\ NsRange(full_list, p - 1).end
                      = time_to_seconds(1995) - Ulp(time_to_seconds(1995))
====
